---- MODULE Spec2Model ----
(***************************************************************************)
(* Pull Request File Search (src/main.py): one run of PullRequestAnalyzer. *)
(* The main thread reads the configuration, prompts for the search         *)
(* criteria, pages through the pull-request list and submits one           *)
(* read_files call per retained pull request to a ThreadPoolExecutor; the  *)
(* pool's threads page through each pull request's changed files.  The     *)
(* GitHub server is the environment: the response to each page request is  *)
(* chosen when the request is made.                                        *)
(***************************************************************************)
EXTENDS Integers, Sequences, FiniteSets, TLC

\* ------------------------------------------------------------- bounds
MaxListPages == 2      \* pages of the pull-request list the server serves
MaxPerPage == 2        \* pull requests on one list page
MaxFilePages == 2      \* pages of one pull request's changed-file list
MaxFilesPerPage == 2   \* changed files on one page
MaxDay == 1            \* days are 0..MaxDay
TicksPerDay == 2       \* instants of one day: 0 is midnight
MaxWorkers == 2
MaxRuns == 2        \* threads of the ThreadPoolExecutor

\* ------------------------------------------------------------- values
None == -1

TargetAnswers == {"src/app.py"}
FileNames == {"src/app.py", "src/App.py"}
WorldStatusAnswers(w) ==
    CASE w = "dates" -> {"all", "closed"}
      [] w = "files" -> {"open", "closed"}
      [] OTHER -> {"all", "open", "closed"}
FilterAnswers == {"yes", "no", "maybe"}
AgainAnswers == {"yes", "no", "maybe"}
\* What the user types for a date: a day in mm-dd-yy form, or text that
\* strptime rejects.
DateAnswers == [valid : {TRUE}, day : 0..MaxDay] \cup {[valid |-> FALSE, day |-> 0]}
\* created_at of a pull request, 'YYYY-MM-DDTHH:MM:SSZ': a day and an instant of it.
CreatedAts == [day : 0..MaxDay, tod : 0..(TicksPerDay - 1)]

\* The product of every pull-request list with every changed-file list is
\* bounded by letting one of the two vary in a run.  In world "dates" the
\* pull-request list varies (pages, creation dates, the user's date range)
\* and every pull request changed the one file FixedFiles.  In world "files"
\* the changed-file lists vary, the user searches the open pull requests and
\* the list is a single page of pull requests created at the same instant.
\* The runs under fair scheduling use a third world, "small": every status
\* answer, pull requests created at the same instant, one pull request at
\* most on a page after the first, and the changed-file answers SmallFiles.
Worlds == {"dates", "files"}
FixedCreatedAt == [day |-> 0, tod |-> 0]
FixedFiles == <<"src/App.py">>

HTTP_OK == 200

\* datetime.strptime(text, '%m-%d-%y'): midnight of the day.
StrptimeDate(ans) == ans.day * TicksPerDay

\* datetime.strptime(pr['created_at'], '%Y-%m-%dT%H:%M:%SZ')
StrptimeCreatedAt(c) == c.day * TicksPerDay + c.tod

SeqsUpTo(S, n) == UNION {[1..k -> S] : k \in 0..n}

RECURSIVE Flatten(_)
Flatten(ss) == IF ss = <<>> THEN <<>> ELSE Head(ss) \o Flatten(Tail(ss))

Range(s) == {s[i] : i \in 1..Len(s)}

\* ------------------------------------------------------------- state
VARIABLES
    world,                    \* which of the server's data varies: "dates" or "files"
    examined,                 \* turns of the read_files loop begun, all calls together
    run,                      \* number of the current turn of __main__'s loop
    pc,                       \* where the main thread is in run()
    error,                    \* the exception run() caught: "none", "config", "list"
    target_file, pr_status, date_filtering, START_DATE, END_DATE,
    answered,                 \* the two dates typed at the last date prompt, or NoAnswer
    pull_requests_with_file, pull_requests_searched, files_searched,
    listPage,                 \* fetch_pull_requests' local "page"
    listPages,                \* responses fetch_pull_requests received, in order
    listReqs,                 \* page numbers fetch_pull_requests requested, in order
    listPos,                  \* elements of the current page already yielded
    stream,                   \* pull requests fetch_pull_requests yielded, in order
    file_request_futures,     \* one record per executor.submit, in submission order
    next_future,              \* index of the future the collection loop waits for
    printed,                  \* indices of the futures whose exception was printed
    report                    \* what display_results printed

criteria == <<target_file, pr_status, date_filtering, START_DATE, END_DATE, answered>>
result == <<pull_requests_with_file, pull_requests_searched, files_searched>>
lister == <<listPage, listPages, listReqs, listPos, stream>>
env == <<world, examined, run>>
vars == <<env, pc, error, criteria, result, lister, file_request_futures, next_future,
          printed, report>>

NoAnswer == <<>>
NoReport == [shown |-> FALSE, urls |-> <<>>, prs |-> 0, files |-> 0]

\* PullRequestAnalyzer.__init__, and the locals of an unstarted run
Start(w) ==
    /\ world = w
    /\ examined = 0
    /\ run = 1
    /\ pc = "read_config"
    /\ error = "none"
    /\ target_file = "" /\ pr_status = "" /\ date_filtering = FALSE
    /\ START_DATE = None /\ END_DATE = None
    /\ answered = NoAnswer
    /\ pull_requests_with_file = <<>>
    /\ pull_requests_searched = 0
    /\ files_searched = 0
    /\ listPage = 1 /\ listPages = <<>> /\ listReqs = <<>> /\ listPos = 0 /\ stream = <<>>
    /\ file_request_futures = <<>>
    /\ next_future = 1
    /\ printed = {}
    /\ report = NoReport

Init == \E w \in Worlds : Start(w)
FairInit == Start("small")

\* ------------------------------------------------------------- inputs
\* read_config: raises when config.ini is missing or incomplete.
ReadConfig ==
    /\ pc = "read_config"
    /\ \E ok \in BOOLEAN :
          IF ok THEN pc' = "ask_target" /\ error' = error
                ELSE pc' = "error_exit" /\ error' = "config"
    /\ UNCHANGED <<env, criteria, result, lister, file_request_futures, next_future,
                   printed, report>>

AskTarget ==
    /\ pc = "ask_target"
    /\ \E ans \in TargetAnswers : target_file' = ans
    /\ pc' = "ask_status"
    /\ UNCHANGED <<env, error, pr_status, date_filtering, START_DATE, END_DATE, answered, result,
                   lister, file_request_futures, next_future, printed, report>>

AskStatus ==
    /\ pc = "ask_status"
    /\ \E ans \in WorldStatusAnswers(world) :
          IF ans = "open" \/ ans = "all"
          THEN /\ pr_status' = ans
               /\ pc' = IF ans = "all" THEN "ask_filter" ELSE "list_request"
          ELSE /\ pr_status' = pr_status
               /\ pc' = pc
    /\ UNCHANGED <<env, error, target_file, date_filtering, START_DATE, END_DATE, answered,
                   result,
                   lister, file_request_futures, next_future, printed, report>>

AskFilter ==
    /\ pc = "ask_filter"
    /\ \E ans \in FilterAnswers :
          IF ans \in {"yes", "no"}
          THEN /\ date_filtering' = (ans = "yes")
               /\ pc' = IF ans = "yes" THEN "ask_dates" ELSE "list_request"
          ELSE /\ date_filtering' = date_filtering
               /\ pc' = pc
    /\ UNCHANGED <<env, error, target_file, pr_status, START_DATE, END_DATE, answered, result,
                   lister, file_request_futures, next_future, printed, report>>

\* AskDates without the comparison of the two dates: any two well-formed
\* dates end the loop.
AskDates_nocheck ==
    /\ pc = "ask_dates"
    /\ \E s \in DateAnswers, e \in DateAnswers :
          /\ answered' = <<s, e>>
          /\ START_DATE' = IF s.valid THEN StrptimeDate(s) ELSE START_DATE
          /\ END_DATE' = IF s.valid /\ e.valid THEN StrptimeDate(e) ELSE END_DATE
          /\ pc' = IF s.valid /\ e.valid THEN "list_request" ELSE pc
    /\ UNCHANGED <<env, error, target_file, pr_status, date_filtering, result,
                   lister, file_request_futures, next_future, printed, report>>

\* One turn of the date loop: both dates are asked for, parsed in order
\* (a malformed one raises ValueError and leaves what was not yet assigned),
\* and compared.
AskDates ==
    /\ pc = "ask_dates"
    /\ \E s \in DateAnswers, e \in DateAnswers :
          /\ answered' = <<s, e>>
          /\ START_DATE' = IF s.valid THEN StrptimeDate(s) ELSE START_DATE
          /\ END_DATE' = IF s.valid /\ e.valid THEN StrptimeDate(e) ELSE END_DATE
          /\ pc' = IF s.valid /\ e.valid /\ ~(StrptimeDate(s) > StrptimeDate(e))
                   THEN "list_request" ELSE pc
    /\ UNCHANGED <<env, error, target_file, pr_status, date_filtering, result,
                   lister, file_request_futures, next_future, printed, report>>

\* ------------------------------------------------------------- server
ErrorResponse == [status |-> 500, items |-> <<>>, next |-> FALSE]

\* What the server may answer to a request for page `page` of the pull-request
\* list: an error, or an array of pull requests with or without a 'next' link.
\* The list is finite: its last page carries no 'next' link.  In the "files"
\* world every page after the first is empty or an error.
ListResponses(page) ==
    {ErrorResponse} \cup
    [status : {HTTP_OK},
     items : SeqsUpTo(IF world = "dates" THEN CreatedAts ELSE {FixedCreatedAt},
                      CASE world = "files" /\ page > 1 -> 0
                        [] world = "small" /\ page > 1 -> 1
                        [] OTHER -> MaxPerPage),
     next : IF page < MaxListPages THEN BOOLEAN ELSE {FALSE}]

\* The changed-file answers of world "small": an error, a page with the
\* searched file, a page with another file and a 'next' link, an empty page.
SmallFiles ==
    {ErrorResponse,
     [status |-> HTTP_OK, items |-> <<"src/app.py">>, next |-> FALSE],
     [status |-> HTTP_OK, items |-> <<"src/App.py">>, next |-> TRUE],
     [status |-> HTTP_OK, items |-> <<>>, next |-> FALSE]}

FileResponses(page) ==
    CASE world = "files" ->
           {ErrorResponse} \cup
           [status : {HTTP_OK}, items : SeqsUpTo(FileNames, MaxFilesPerPage),
            next : IF page < MaxFilePages THEN BOOLEAN ELSE {FALSE}]
      [] world = "small" -> {r \in SmallFiles : r.next => page < MaxFilePages}
      [] OTHER -> {[status |-> HTTP_OK, items |-> FixedFiles, next |-> FALSE]}

HtmlUrl(number) == <<"pull", number>>

\* The pull-request objects of a list page: the server numbers them uniquely.
PullsOf(resp, before) ==
    [i \in 1..Len(resp.items) |->
        [number |-> before + i, html_url |-> HtmlUrl(before + i),
         created_at |-> resp.items[i]]]

ItemsOf(pages) == Flatten([i \in 1..Len(pages) |-> pages[i].items])

\* ------------------------------------------------------------- paging
\* OnResponse without the status check: an error body is taken for a page.
OnResponse_unchecked(resp) ==
    IF resp.items = <<>> THEN "return" ELSE "yield"

\* What a paging generator does with a response: raise, stop, or start
\* yielding its elements.
OnResponse(resp) ==
    IF resp.status # HTTP_OK THEN "raise"
    ELSE IF resp.items = <<>> THEN "return"
    ELSE "yield"

\* OnResume without the look at response.links: only an empty page stops it.
OnResume_nolink(resp, pos) ==
    IF pos < Len(resp.items) THEN "yield" ELSE "request"

\* What a paging generator does when it is resumed after yielding element
\* `pos` of the page `resp`: yield the next one, request the next page, or stop.
OnResume(resp, pos) ==
    IF pos < Len(resp.items) THEN "yield"
    ELSE IF resp.next THEN "request"
    ELSE "return"

\* ------------------------------------------------------------- main thread
\* DateDecision with the two outcomes exchanged: the loop stops at a pull
\* request created after END_DATE and skips one created before START_DATE.
DateDecision_exchanged(pr) ==
    IF date_filtering
    THEN IF StrptimeCreatedAt(pr.created_at) > END_DATE THEN "break"
         ELSE IF StrptimeCreatedAt(pr.created_at) < START_DATE THEN "continue"
         ELSE "submit"
    ELSE "submit"

\* DateDecision without the look at date_filtering: the dates are compared
\* also when the user asked for no date filter.
DateDecision_always(pr) ==
    IF StrptimeCreatedAt(pr.created_at) > END_DATE THEN "continue"
    ELSE IF StrptimeCreatedAt(pr.created_at) < START_DATE THEN "break"
    ELSE "submit"

\* DateDecision with ">=" for ">": a pull request created at END_DATE is skipped.
DateDecision_exclusive(pr) ==
    IF date_filtering
    THEN IF StrptimeCreatedAt(pr.created_at) >= END_DATE THEN "continue"
         ELSE IF StrptimeCreatedAt(pr.created_at) < START_DATE THEN "break"
         ELSE "submit"
    ELSE "submit"

\* DateDecision with "continue" for "break": an older pull request is skipped
\* and the enumeration goes on.
DateDecision_skip(pr) ==
    IF date_filtering
    THEN IF StrptimeCreatedAt(pr.created_at) > END_DATE THEN "continue"
         ELSE IF StrptimeCreatedAt(pr.created_at) < START_DATE THEN "continue"
         ELSE "submit"
    ELSE "submit"

\* The date test of process_pull_requests for one pull request.
DateDecision(pr) ==
    IF date_filtering
    THEN IF StrptimeCreatedAt(pr.created_at) > END_DATE THEN "continue"
         ELSE IF StrptimeCreatedAt(pr.created_at) < START_DATE THEN "break"
         ELSE "submit"
    ELSE "submit"

\* executor.submit(self.read_files, pull_number, pull_url): a pending future.
NewFuture(pr) ==
    [number |-> pr.number, url |-> pr.html_url, state |-> "pending",
     page |-> 1, pages |-> <<>>, reqs |-> <<>>, pos |-> 0, tmp |-> 0,
     emitted |-> <<>>, counted |-> 0, appended |-> 0, has_target |-> FALSE]

\* The future once the call's result or exception is set: the locals of
\* read_files and its generator are gone.
Settled(f, state) ==
    [NewFuture([number |-> f.number, html_url |-> f.url]) EXCEPT
        !.state = state, !.appended = f.appended, !.has_target = f.has_target]

\* Finished without the wait: a future counts as finished in any state.
Finished_nowait(f) == f.state \in {"pending", "load", "store", "append", "return", "raise",
                                   "done", "failed"}

\* future.done(): the call has returned or raised.
Finished(f) == f.state \in {"done", "failed"}
Running(f) == f.state \in {"load", "store", "append", "return", "raise"}
AllFinished == \A i \in 1..Len(file_request_futures) : Finished(file_request_futures[i])

\* fetch_pull_requests requests page listPage.  A non-200 answer raises out
\* of the for loop and out of the with block; an empty page ends the loop.
ListRequest ==
    /\ pc = "list_request"
    /\ \E resp \in ListResponses(listPage) :
          /\ listReqs' = Append(listReqs, listPage)
          /\ listPages' = Append(listPages, resp)
          /\ listPos' = 0
          /\ CASE OnResponse(resp) = "raise" -> pc' = "shutdown" /\ error' = "list"
               [] OnResponse(resp) = "return" -> pc' = "collect" /\ error' = error
               [] OTHER -> pc' = "list_iter" /\ error' = error
    /\ UNCHANGED <<env, criteria, result, listPage, stream, file_request_futures,
                   next_future, printed, report>>

\* One turn of the for loop of process_pull_requests: the generator yields the
\* next pull request, the body filters it and submits read_files, and the
\* generator is resumed.
ListIter ==
    /\ pc = "list_iter"
    /\ LET resp == listPages[Len(listPages)]
           before == Len(ItemsOf(SubSeq(listPages, 1, Len(listPages) - 1)))
           pr == PullsOf(resp, before)[listPos + 1]
           decision == DateDecision(pr)
           resume == OnResume(resp, listPos + 1)
       IN /\ stream' = Append(stream, pr)
          /\ listPos' = listPos + 1
          /\ IF decision = "submit"
             THEN /\ pull_requests_searched' = pull_requests_searched + 1
                  /\ file_request_futures' = Append(file_request_futures, NewFuture(pr))
             ELSE UNCHANGED <<env, pull_requests_searched, file_request_futures>>
          /\ IF decision = "break"
             THEN pc' = "collect" /\ listPage' = listPage
             ELSE CASE resume = "yield" -> pc' = "list_iter" /\ listPage' = listPage
                    [] resume = "request" -> pc' = "list_request" /\ listPage' = listPage + 1
                    [] OTHER -> pc' = "collect" /\ listPage' = listPage
    /\ UNCHANGED <<env, error, criteria, pull_requests_with_file, files_searched,
                   listPages, listReqs, next_future, printed, report>>

\* ResultOutcome without the print: the call's exception is caught and dropped.
ResultOutcome_silent(f) == "pass"

\* ResultOutcome without the try/except: the call's exception leaves the loop.
ResultOutcome_uncaught(f) == IF f.state = "failed" THEN "raise" ELSE "pass"

\* What the collection loop does with a finished future: future.result()
\* returns, or raises the call's exception, which the loop catches and prints.
ResultOutcome(f) == IF f.state = "failed" THEN "print" ELSE "pass"

\* future.result() for the next future of file_request_futures: waits until it
\* has finished.
FutureResult ==
    /\ pc = "collect"
    /\ next_future <= Len(file_request_futures)
    /\ Finished(file_request_futures[next_future])
    /\ LET outcome == ResultOutcome(file_request_futures[next_future]) IN
          /\ printed' = IF outcome = "print" THEN printed \cup {next_future} ELSE printed
          /\ pc' = IF outcome = "raise" THEN "shutdown" ELSE pc
          /\ error' = IF outcome = "raise" THEN "files" ELSE error
    /\ next_future' = next_future + 1
    /\ UNCHANGED <<env, criteria, result, lister, file_request_futures, report>>

\* Leaving the with block after the collection loop: shutdown(wait=True).
ExecutorExit ==
    /\ pc = "collect"
    /\ next_future > Len(file_request_futures)
    /\ AllFinished
    /\ pc' = "display"
    /\ UNCHANGED <<env, error, criteria, result, lister, file_request_futures, next_future,
                   printed, report>>

\* ExecutorExitOnError with the exception swallowed: the run goes on to
\* display_results.
ExecutorExitOnError_swallowed ==
    /\ pc = "shutdown"
    /\ AllFinished
    /\ pc' = "display"
    /\ UNCHANGED <<env, error, criteria, result, lister, file_request_futures, next_future,
                   printed, report>>

\* Leaving the with block with an exception: shutdown(wait=True) still waits
\* for every submitted call, then run() prints the error and exits with 1.
ExecutorExitOnError ==
    /\ pc = "shutdown"
    /\ AllFinished
    /\ pc' = "error_exit"
    /\ UNCHANGED <<env, error, criteria, result, lister, file_request_futures, next_future,
                   printed, report>>

DisplayResults ==
    /\ pc = "display"
    /\ report' = [shown |-> TRUE, urls |-> pull_requests_with_file,
                  prs |-> pull_requests_searched, files |-> files_searched]
    /\ pc' = "done"
    /\ UNCHANGED <<env, error, criteria, result, lister, file_request_futures, next_future,
                   printed>>

\* SearchAgain with the analyzer of the run before used again: its list and
\* counters are not reset.
SearchAgain_keep ==
    /\ pc = "done"
    /\ \E ans \in AgainAnswers :
          CASE ans = "yes" ->
                 /\ run < MaxRuns
                 /\ run' = run + 1
                 /\ world' = world
                 /\ examined' = 0
                 /\ pc' = "read_config"
                 /\ error' = "none"
                 /\ target_file' = "" /\ pr_status' = "" /\ date_filtering' = FALSE
                 /\ START_DATE' = None /\ END_DATE' = None
                 /\ answered' = NoAnswer
                 /\ UNCHANGED result
                 /\ listPage' = 1 /\ listPages' = <<>> /\ listReqs' = <<>>
                 /\ listPos' = 0 /\ stream' = <<>>
                 /\ file_request_futures' = <<>>
                 /\ next_future' = 1
                 /\ printed' = {}
                 /\ report' = NoReport
            [] ans = "no" ->
                 /\ pc' = "exit"
                 /\ UNCHANGED <<env, error, criteria, result, lister, file_request_futures,
                                next_future, printed, report>>
            [] OTHER -> UNCHANGED vars

\* The prompt at the end of __main__'s loop: "yes" starts the next turn with a
\* new PullRequestAnalyzer (at most MaxRuns turns), "no" is sys.exit(0), and
\* anything else is asked again.
SearchAgain ==
    /\ pc = "done"
    /\ \E ans \in AgainAnswers :
          CASE ans = "yes" ->
                 /\ run < MaxRuns
                 /\ run' = run + 1
                 /\ world' = world
                 /\ examined' = 0
                 /\ pc' = "read_config"
                 /\ error' = "none"
                 /\ target_file' = "" /\ pr_status' = "" /\ date_filtering' = FALSE
                 /\ START_DATE' = None /\ END_DATE' = None
                 /\ answered' = NoAnswer
                 /\ pull_requests_with_file' = <<>>
                 /\ pull_requests_searched' = 0
                 /\ files_searched' = 0
                 /\ listPage' = 1 /\ listPages' = <<>> /\ listReqs' = <<>>
                 /\ listPos' = 0 /\ stream' = <<>>
                 /\ file_request_futures' = <<>>
                 /\ next_future' = 1
                 /\ printed' = {}
                 /\ report' = NoReport
            [] ans = "no" ->
                 /\ pc' = "exit"
                 /\ UNCHANGED <<env, error, criteria, result, lister, file_request_futures,
                                next_future, printed, report>>
            [] OTHER -> UNCHANGED vars

\* ------------------------------------------------------------- pool threads
SetFuture(i, f) ==
    file_request_futures' = [file_request_futures EXCEPT ![i] = f]

\* IsMatch comparing the file object, not its name: never equal.
IsMatch_never(filename) == FALSE

\* IsMatch comparing without regard to case.
Lower(name) == IF name = "src/App.py" THEN "src/app.py" ELSE name
IsMatch_nocase(filename) == Lower(filename) = Lower(target_file)

\* file['filename'] == self.target_file
IsMatch(filename) == filename = target_file

\* AppendUrl that records the URL twice.
AppendUrl_twice(list, url) == Append(Append(list, url), url)

\* AppendUrl as an assignment of a one-element list: earlier URLs are lost.
AppendUrl_overwrite(list, url) == <<url>>

\* self.pull_requests_with_file.append(pull_url): list.append is one atomic
\* operation of the interpreter.
AppendUrl(list, url) == Append(list, url)

\* fetch_pr_files has requested page f.page and received resp.  A non-200
\* answer raises out of read_files; an empty page ends read_files.
Requested(f, resp) ==
    [f EXCEPT !.reqs = Append(@, f.page),
              !.pages = Append(@, resp),
              !.pos = 0,
              !.has_target = @ \/ target_file \in Range(resp.items),
              !.state = CASE OnResponse(resp) = "raise" -> "raise"
                          [] OnResponse(resp) = "return" -> "return"
                          [] OTHER -> "load"]

\* StartCall without the limit on the number of pool threads: every pending
\* call gets a thread at once.
StartCall_unbounded(i) ==
    /\ file_request_futures[i].state = "pending"
    /\ \A j \in 1..(i - 1) : file_request_futures[j].state # "pending"
    /\ \E resp \in FileResponses(1) :
          SetFuture(i, Requested(file_request_futures[i], resp))
    /\ UNCHANGED <<env, pc, error, criteria, result, lister, next_future, printed, report>>

\* A pool thread takes the oldest pending call off the executor's queue (at
\* most MaxWorkers threads exist) and runs read_files up to the answer to
\* fetch_pr_files' first request.
StartCall(i) ==
    /\ file_request_futures[i].state = "pending"
    /\ \A j \in 1..(i - 1) : file_request_futures[j].state # "pending"
    /\ Cardinality({j \in 1..Len(file_request_futures) :
                        Running(file_request_futures[j])}) < MaxWorkers
    /\ \E resp \in FileResponses(1) :
          SetFuture(i, Requested(file_request_futures[i], resp))
    /\ UNCHANGED <<env, pc, error, criteria, result, lister, next_future, printed, report>>

\* The generator yields the next file and read_files reads self.files_searched
\* (the first half of "self.files_searched += 1").
ReadFilesLoad(i) ==
    /\ file_request_futures[i].state = "load"
    /\ LET f == file_request_futures[i]
           file == f.pages[Len(f.pages)].items[f.pos + 1]
       IN SetFuture(i, [f EXCEPT !.emitted = Append(@, file),
                                 !.pos = @ + 1,
                                 !.tmp = files_searched,
                                 !.state = "store"])
    /\ examined' = examined + 1
    /\ UNCHANGED <<world, run, pc, error, criteria, result, lister, next_future, printed,
                   report>>

\* read_files stores the incremented count (the second half of "+= 1") and
\* compares the filename; without a match the generator is resumed, up to the
\* answer to its next request.
ReadFilesStore(i) ==
    /\ file_request_futures[i].state = "store"
    /\ LET f == file_request_futures[i]
           resp == f.pages[Len(f.pages)]
           file == resp.items[f.pos]
           resume == OnResume(resp, f.pos)
       IN /\ files_searched' = f.tmp + 1
          /\ LET g == [f EXCEPT !.counted = @ + 1] IN
             IF IsMatch(file) THEN SetFuture(i, [g EXCEPT !.state = "append"])
             ELSE CASE resume = "yield" -> SetFuture(i, [g EXCEPT !.state = "load"])
                    [] resume = "request" ->
                         \E next \in FileResponses(f.page + 1) :
                            SetFuture(i, Requested([g EXCEPT !.page = @ + 1], next))
                    [] OTHER -> SetFuture(i, [g EXCEPT !.state = "return"])
    /\ UNCHANGED <<env, pc, error, criteria, pull_requests_with_file,
                   pull_requests_searched, lister, next_future, printed, report>>

\* read_files records the pull request's URL and breaks out of the loop.
ReadFilesAppend(i) ==
    /\ file_request_futures[i].state = "append"
    /\ LET f == file_request_futures[i] IN
          /\ pull_requests_with_file' = AppendUrl(pull_requests_with_file, f.url)
          /\ SetFuture(i, [f EXCEPT !.appended = @ + 1, !.state = "return"])
    /\ UNCHANGED <<env, pc, error, criteria, pull_requests_searched, files_searched,
                   lister, next_future, printed, report>>

\* SetResult of a thread that dies with the exception: the future of a call
\* that raised is never set.
SetResult_lost(i) ==
    /\ file_request_futures[i].state = "return"
    /\ LET f == file_request_futures[i] IN SetFuture(i, Settled(f, "done"))
    /\ UNCHANGED <<env, pc, error, criteria, result, lister, next_future, printed, report>>

\* The pool thread sets the future's result (read_files returned) or its
\* exception (fetch_pr_files raised), and is free for the next call.
SetResult(i) ==
    /\ file_request_futures[i].state \in {"return", "raise"}
    /\ LET f == file_request_futures[i] IN
          SetFuture(i, Settled(f, IF f.state = "return" THEN "done" ELSE "failed"))
    /\ UNCHANGED <<env, pc, error, criteria, result, lister, next_future, printed, report>>

Worker ==
    \E i \in 1..Len(file_request_futures) :
        \/ StartCall(i)
        \/ ReadFilesLoad(i)
        \/ ReadFilesStore(i)
        \/ ReadFilesAppend(i)
        \/ SetResult(i)

Next ==
    \/ ReadConfig
    \/ AskTarget
    \/ AskStatus
    \/ AskFilter
    \/ AskDates
    \/ ListRequest
    \/ ListIter
    \/ FutureResult
    \/ ExecutorExit
    \/ ExecutorExitOnError
    \/ DisplayResults
    \/ SearchAgain
    \/ Worker

Spec == Init /\ [][Next]_vars

\* The steps of the main thread that wait for no user: requests get their
\* answer, and a wait on a future or on the pool ends once its condition holds.
Main ==
    \/ ListRequest
    \/ ListIter
    \/ FutureResult
    \/ ExecutorExit
    \/ ExecutorExitOnError
    \/ DisplayResults

\* The threads are scheduled fairly: the main thread, and the pool's threads.
FairSpec == FairInit /\ [][Next]_vars /\ WF_vars(Main) /\ WF_vars(Worker)

\* ------------------------------------------------------------- properties
Counting(n) == [k \in 1..n |-> k]

IsPrefix(s, t) == Len(s) <= Len(t) /\ s = SubSeq(t, 1, Len(s))

\* Every pull request of the list pages received so far, in page order.
AllPulls ==
    Flatten([k \in 1..Len(listPages) |->
                PullsOf(listPages[k], Len(ItemsOf(SubSeq(listPages, 1, k - 1))))])

Futures == 1..Len(file_request_futures)

\* A call whose read_files frame (and generator) is alive.
HasFrame(f) == f.state \in {"load", "store", "append", "return", "raise"}

\* A successful page that ends a page sequence, and one that continues it.
Terminating(resp) == resp.status = HTTP_OK /\ (resp.items = <<>> \/ ~resp.next)
Continuing(resp) == resp.status = HTTP_OK /\ resp.items # <<>> /\ resp.next
TerminatedSeq(pages) ==
    /\ pages # <<>>
    /\ Terminating(pages[Len(pages)])
    /\ \A k \in 1..(Len(pages) - 1) : Continuing(pages[k])

\* The for loop of process_pull_requests has met a pull request older than the
\* start date.
Halted ==
    /\ date_filtering
    /\ \E k \in 1..Len(stream) : StrptimeCreatedAt(stream[k].created_at) < START_DATE

\* C1: over a sequence of successful pages that ends with an empty page or a
\* page without a 'next' link, fetch_pull_requests and fetch_pr_files each
\* yield exactly the concatenation of the pages' elements in page order,
\* requesting pages 1, 2, 3, ... one at a time and nothing after the
\* terminating page (a consumer that breaks out early has a prefix of it).
C1_PagedFetchConcatenates ==
    /\ listReqs = Counting(Len(listPages))
    /\ \A k \in 1..(Len(listPages) - 1) : Continuing(listPages[k])
    /\ IsPrefix(stream, AllPulls)
    /\ (TerminatedSeq(listPages) /\ pc # "list_iter" /\ ~Halted) => stream = AllPulls
    /\ \A i \in Futures :
          LET f == file_request_futures[i] IN
          HasFrame(f) =>
             /\ f.reqs = Counting(Len(f.pages))
             /\ f.page = Len(f.pages)
             /\ \A k \in 1..(Len(f.pages) - 1) : Continuing(f.pages[k])
             /\ IsPrefix(f.emitted, ItemsOf(f.pages))
             /\ (TerminatedSeq(f.pages) /\ f.state = "return" /\ f.appended = 0)
                   => f.emitted = ItemsOf(f.pages)

C1_Witness ==
    /\ pc = "collect" /\ Len(stream) = 2 /\ stream = AllPulls
    /\ \E i \in Futures :
          LET f == file_request_futures[i] IN
          /\ f.state = "return" /\ f.appended = 0
          /\ Len(f.pages) = 2 /\ Len(f.emitted) >= 3
          /\ f.emitted = ItemsOf(f.pages)

\* C9: a non-200 answer to the request for page N makes the fetcher raise:
\* the failed request is its last, nothing of page N or later is yielded,
\* and what pages 1..N-1 yielded stays yielded.
C9_State ==
    /\ (\E k \in 1..Len(listPages) : listPages[k].status # HTTP_OK) =>
          /\ \A k \in 1..(Len(listPages) - 1) : Continuing(listPages[k])
          /\ listReqs = Counting(Len(listPages))
          /\ stream = AllPulls
          /\ error = "list"
          /\ pc \in {"shutdown", "error_exit"}
    /\ \A i \in Futures :
          LET f == file_request_futures[i] IN
          (\E k \in 1..Len(f.pages) : f.pages[k].status # HTTP_OK) =>
             /\ \A k \in 1..(Len(f.pages) - 1) : Continuing(f.pages[k])
             /\ f.reqs = Counting(Len(f.pages))
             /\ f.emitted = ItemsOf(f.pages)
             /\ f.state = "raise"

C9_Step ==
    /\ (error = "list") => (listReqs' = listReqs /\ stream' = stream)
    /\ \A i \in Futures :
          (file_request_futures[i].state \in {"raise", "failed"} /\ pc' # "read_config") =>
             \/ file_request_futures'[i] = file_request_futures[i]
             \/ /\ file_request_futures'[i].state = "failed"
                /\ file_request_futures'[i].reqs = <<>>

\* C9: the state part holds always and the step part in every step: after a
\* non-200 answer the fetcher raises, requests nothing more and yields nothing
\* more, and what it had yielded stays yielded.
C9_ErrorAbortsSequence == []C9_State /\ [][C9_Step]_vars

C9_Witness ==
    \E i \in Futures :
        LET f == file_request_futures[i] IN
        /\ f.state = "raise"
        /\ Len(f.pages) = 2 /\ Len(f.emitted) = 2
        /\ f.pages[2].status # HTTP_OK
Created(pr) == StrptimeCreatedAt(pr.created_at)
InRange(pr) == START_DATE <= Created(pr) /\ Created(pr) <= END_DATE
SortedDescending(pulls) ==
    \A i \in 1..Len(pulls) : \A j \in i..Len(pulls) : Created(pulls[i]) >= Created(pulls[j])
Numbers(pulls) == [i \in 1..Len(pulls) |-> pulls[i].number]
Dispatched == [i \in Futures |-> file_request_futures[i].number]
ListErrorSeen == \E k \in 1..Len(listPages) : listPages[k].status # HTTP_OK
EnumerationEnded == pc \in {"collect", "display", "done", "exit"}

\* The first pull request of the received pages created before START_DATE is
\* number k (the server's numbers are the positions in the stream).
FirstOlder(k) ==
    /\ k \in 1..Len(AllPulls)
    /\ Created(AllPulls[k]) < START_DATE
    /\ \A j \in 1..(k - 1) : ~(Created(AllPulls[j]) < START_DATE)

\* C2: with date filtering on, START_DATE <= END_DATE and a list sorted by
\* creation date descending, the pull requests submitted for a file check are
\* exactly those with START_DATE <= created_at <= END_DATE (both dates taken
\* at midnight, as strptime gives them), in order, and the enumeration stops
\* at the first pull request created before START_DATE.
C2_DateFilterSelectsRange ==
    (date_filtering /\ START_DATE <= END_DATE /\ SortedDescending(AllPulls)
       /\ ~ListErrorSeen) =>
        /\ Dispatched = Numbers(SelectSeq(stream, InRange))
        /\ EnumerationEnded => Dispatched = Numbers(SelectSeq(AllPulls, InRange))
        /\ \A k \in 1..Len(stream) :
              FirstOlder(k) => Len(stream) = k /\ EnumerationEnded

C2_Witness ==
    /\ pc = "done" /\ date_filtering /\ SortedDescending(AllPulls)
    /\ Len(AllPulls) = 4 /\ Len(stream) = 3
    /\ Created(AllPulls[1]) > END_DATE
    /\ InRange(AllPulls[2])
    /\ FirstOlder(3)
    /\ Dispatched = <<2>>

\* C10: with date filtering on, once the loop has met the first pull request
\* created before START_DATE, no pull request at or after that position is
\* yielded or submitted (so no read_files call counts files for it) and no
\* further list page is requested.
C10_StopAtFirstOlder ==
    date_filtering =>
      \A k \in 1..Len(stream) :
         FirstOlder(k) =>
            /\ Len(stream) = k
            /\ EnumerationEnded
            /\ \A i \in Futures : file_request_futures[i].number < k
            /\ pull_requests_searched < k
            /\ Len(listReqs) = Len(listPages)
            /\ Len(ItemsOf(SubSeq(listPages, 1, Len(listPages) - 1))) < k
            /\ listPage = Len(listPages)

C10_Witness ==
    /\ pc = "done" /\ date_filtering
    /\ Len(AllPulls) = 4 /\ FirstOlder(3) /\ InRange(AllPulls[4])
    /\ Dispatched = <<1, 2>>
    /\ examined = 2

\* C6: a non-200 answer to a pull-request-list request aborts the run: from
\* then on no call is submitted, no list page is requested, display_results
\* does not run, and run() leaves through its error exit once the pool has
\* shut down.
C6_State ==
    ListErrorSeen =>
        /\ error = "list"
        /\ pc \in {"shutdown", "error_exit"}
        /\ ~report.shown
        /\ pc = "error_exit" => AllFinished

C6_Step ==
    ListErrorSeen =>
        /\ Len(file_request_futures') = Len(file_request_futures)
        /\ pull_requests_searched' = pull_requests_searched
        /\ listReqs' = listReqs
        /\ stream' = stream
        /\ report' = report

\* C6: the state part holds always and the step part in every step: after a
\* list fetch error nothing is submitted, requested or displayed, and the run
\* is on its way to the error exit.
C6_ListErrorAbortsRun == []C6_State /\ [][C6_Step]_vars

C6_Witness ==
    /\ pc = "error_exit" /\ error = "list"
    /\ Len(listReqs) = 2 /\ listPages[2].status # HTTP_OK
    /\ Len(file_request_futures) = 2 /\ AllFinished
    /\ examined = 2

Occurrences(list, url) == Cardinality({k \in 1..Len(list) : list[k] = url})
RunEnded == pc \in {"display", "done", "exit", "error_exit"}

\* C3: no increment of the shared counters is lost: once every submitted call
\* has finished, files_searched is the number of files all calls examined
\* and pull_requests_searched the number of calls submitted.
C3_NoLostIncrement ==
    (RunEnded /\ AllFinished) =>
        /\ files_searched = examined
        /\ pull_requests_searched = Len(file_request_futures)

\* The part of C3 that the code keeps: pull_requests_searched, which only the
\* main thread writes, is the number of calls submitted, and files_searched
\* never exceeds the number of files examined.
C3_MainThreadCounter ==
    /\ pull_requests_searched = Len(file_request_futures)
    /\ files_searched <= examined

\* C4: no append to pull_requests_with_file is lost: the URL of every call
\* that found a match is in the list (once), also after all calls finished.
C4_NoLostAppend ==
    /\ \A i \in Futures :
          LET f == file_request_futures[i] IN
          Occurrences(pull_requests_with_file, f.url) = f.appended
    /\ Len(pull_requests_with_file) =
          Cardinality({i \in Futures : file_request_futures[i].appended >= 1})

C4_Witness ==
    /\ pc = "done" /\ AllFinished
    /\ Len(file_request_futures) = 2
    /\ \A i \in Futures : file_request_futures[i].appended = 1
    /\ pull_requests_with_file = <<file_request_futures[2].url, file_request_futures[1].url>>

\* C5: file checks that fail with a fetch error do not stop the others or the
\* run: the run leaves through the error exit only for a configuration or
\* list error, at the report every call has finished, each failure was
\* printed, the matches of the calls that did not fail are reported, and
\* pull_requests_searched is the number N of calls submitted.
C5_FailedChecksDoNotAbort ==
    /\ pull_requests_searched = Len(file_request_futures)
    /\ pc \in {"shutdown", "error_exit"} => (ListErrorSeen \/ error = "config")
    /\ pc \in {"display", "done"} =>
          \A i \in Futures :
             LET f == file_request_futures[i] IN
             /\ Finished(f)
             /\ f.state = "failed" <=> i \in printed
             /\ f.appended = 1 => Occurrences(pull_requests_with_file, f.url) = 1
    /\ pc = "done" =>
          /\ report.shown
          /\ report.prs = Len(file_request_futures)
          /\ report.urls = pull_requests_with_file

C5_Witness ==
    /\ pc = "done"
    /\ Len(file_request_futures) = 2
    /\ file_request_futures[1].state = "failed"
    /\ file_request_futures[2].state = "done" /\ file_request_futures[2].appended = 1
    /\ report.prs = 2
    /\ report.urls = <<file_request_futures[2].url>>

\* Element m is the first file named target_file that call f was given.
FirstMatch(f, m) ==
    /\ m \in 1..Len(f.emitted)
    /\ f.emitted[m] = target_file
    /\ \A j \in 1..(m - 1) : f.emitted[j] # target_file

\* C7: in one read_files call the first file whose name equals target_file
\* makes the call record the URL once and stop: no file after it is yielded
\* or counted, no further page is requested, and the URL is in the list at
\* most once.
C7_FirstMatchStops ==
    \A i \in Futures :
       LET f == file_request_futures[i] IN
       /\ f.appended <= 1
       /\ Occurrences(pull_requests_with_file, f.url) <= 1
       /\ \A m \in 1..Len(f.emitted) :
             FirstMatch(f, m) =>
                /\ Len(f.emitted) = m
                /\ f.counted <= m
                /\ f.state \in {"store", "append", "return"}
                /\ f.state = "return" => (f.appended = 1 /\ f.counted = m)
                /\ f.state # "return" => f.appended = 0
                /\ f.reqs = Counting(Len(f.pages))
                /\ Len(ItemsOf(SubSeq(f.pages, 1, Len(f.pages) - 1))) < m

C7_Witness ==
    \E i \in Futures :
        LET f == file_request_futures[i] IN
        /\ f.state = "return" /\ f.appended = 1
        /\ FirstMatch(f, 1) /\ f.counted = 1
        /\ f.pages = <<[status |-> HTTP_OK, items |-> <<target_file, "src/App.py">>,
                         next |-> TRUE]>>
        /\ pull_requests_with_file = <<f.url>>

\* C8: after a run without a fetch error, the URL of a submitted pull request
\* is in pull_requests_with_file exactly if its changed-file list holds a
\* name equal to target_file; the list holds nothing else.
C8_MatchedIffListed ==
    (pc \in {"display", "done"} /\ ~ListErrorSeen
       /\ \A i \in Futures : file_request_futures[i].state # "failed") =>
        /\ \A i \in Futures :
              LET f == file_request_futures[i] IN
              f.has_target <=> Occurrences(pull_requests_with_file, f.url) >= 1
        /\ Range(pull_requests_with_file) \subseteq
              {file_request_futures[i].url : i \in Futures}
        /\ pc = "done" => report.urls = pull_requests_with_file

C8_Witness ==
    /\ pc = "done"
    /\ Len(file_request_futures) = 2
    /\ file_request_futures[1].state = "done" /\ ~file_request_futures[1].has_target
    /\ file_request_futures[2].state = "done" /\ file_request_futures[2].has_target
    /\ report.urls = <<file_request_futures[2].url>>
    /\ report.files >= 3

\* C11: without date filtering and without a list fetch error, every pull
\* request of the list pages is submitted for a file check exactly once, in
\* enumeration order, and at the end of the run pull_requests_searched is
\* the number of pull requests the pages returned.
C11_AllDispatchedInOrder ==
    (~date_filtering /\ ~ListErrorSeen) =>
        /\ Dispatched = Numbers(stream)
        /\ pull_requests_searched = Len(stream)
        /\ EnumerationEnded =>
              /\ Dispatched = Numbers(AllPulls)
              /\ Dispatched = Counting(Len(AllPulls))
              /\ pull_requests_searched = Len(AllPulls)
        /\ pc = "done" => report.prs = Len(AllPulls)

C11_Witness ==
    /\ pc = "done" /\ ~date_filtering /\ pr_status = "all"
    /\ Len(listPages) = 2 /\ Len(AllPulls) = 4
    /\ Dispatched = <<1, 2, 3, 4>>
    /\ report.prs = 4

Reporting == pc \in {"display", "done", "exit"}

C12_State ==
    /\ Reporting =>
          \A i \in Futures : file_request_futures[i].state \in {"done", "failed"}
    /\ report.shown =>
          /\ report.urls = pull_requests_with_file
          /\ report.prs = pull_requests_searched
          /\ report.files = files_searched

C12_Step ==
    /\ (Reporting /\ pc' # "read_config") =>
          /\ result' = result
          /\ file_request_futures' = file_request_futures
    /\ pc' # "read_config" => IsPrefix(pull_requests_with_file, pull_requests_with_file')

\* C12: display_results starts only when every submitted read_files call has
\* returned or raised; from then on no step changes pull_requests_with_file,
\* files_searched or pull_requests_searched; and the report shows the recorded
\* URLs in the order in which they were appended.
C12_ReportAfterAllChecks == []C12_State /\ [][C12_Step]_vars

C12_Witness ==
    /\ pc = "done" /\ report.shown
    /\ Len(file_request_futures) = 2
    /\ \A i \in Futures : file_request_futures[i].appended = 1
    /\ report.urls = <<HtmlUrl(2), HtmlUrl(1)>>
    /\ report.files >= 2

Executing == {i \in Futures : file_request_futures[i].state \in
                                 {"load", "store", "append", "return", "raise"}}
Pending == {i \in Futures : file_request_futures[i].state = "pending"}

C13_State ==
    /\ Cardinality(Executing) <= MaxWorkers
    /\ pc = "list_iter" => ENABLED ListIter
    /\ pc = "list_request" => ENABLED ListRequest

C13_Step ==
    \A i \in Futures :
       (i \in Pending /\ file_request_futures'[i].state # "pending") =>
          /\ Cardinality(Executing) < MaxWorkers
          /\ \A j \in 1..(i - 1) : j \notin Pending

\* C13: never more than MaxWorkers read_files calls execute at once; a
\* submitted call stays pending until a pool thread is free and calls start
\* in submission order; the enumeration loop is never blocked by the pool,
\* whatever the state of the calls.
C13_PoolBound == []C13_State /\ [][C13_Step]_vars

C13_Witness ==
    /\ pc = "list_iter"
    /\ Cardinality(Executing) = MaxWorkers
    /\ Cardinality(Pending) = 1
    /\ Len(file_request_futures) = MaxWorkers + 1

\* The in-range pull requests among the first n of the received pages.
InRangeBefore(n) == Numbers(SelectSeq(SubSeq(AllPulls, 1, n), InRange))

\* C16: with date filtering on and a list that is not sorted by creation date
\* descending, the pull requests submitted are exactly the in-range ones that
\* precede the first pull request created before START_DATE; in-range pull
\* requests after it are left out, and the run raises no error for it.
C16_UnsortedStopsEarly ==
    (date_filtering /\ ~SortedDescending(AllPulls) /\ ~ListErrorSeen) =>
        /\ error = "none"
        /\ pc \notin {"shutdown", "error_exit"}
        /\ printed = {}
        /\ \A k \in 1..Len(AllPulls) :
              (FirstOlder(k) /\ EnumerationEnded) =>
                 /\ Dispatched = InRangeBefore(k - 1)
                 /\ pull_requests_searched = Len(InRangeBefore(k - 1))
                 /\ pc = "done" => report.prs = Len(InRangeBefore(k - 1))

C16_Witness ==
    /\ pc = "done" /\ date_filtering /\ ~SortedDescending(AllPulls)
    /\ Len(AllPulls) = 4 /\ FirstOlder(3)
    /\ Created(AllPulls[1]) > END_DATE
    /\ InRange(AllPulls[2]) /\ InRange(AllPulls[4])
    /\ Dispatched = <<2>>
    /\ report.prs = 1 /\ error = "none"

Started == {i \in Futures : file_request_futures[i].state # "pending"}

\* C18: in every state the number of recorded URLs is at most the number of
\* read_files calls that have started, which is at most
\* pull_requests_searched, which is at most the number of pull requests the
\* list generator has yielded; and no URL is recorded twice (the URLs of
\* different pull requests differ).
C18_CountsOrdered ==
    /\ Len(pull_requests_with_file) <= Cardinality(Started)
    /\ Cardinality(Started) <= pull_requests_searched
    /\ pull_requests_searched <= Len(stream)
    /\ \A a, b \in 1..Len(pull_requests_with_file) :
          pull_requests_with_file[a] = pull_requests_with_file[b] => a = b

C18_Witness ==
    /\ Len(stream) = 2
    /\ pull_requests_searched = 2
    /\ Len(file_request_futures) = 2
    /\ Started = {1}
    /\ pull_requests_with_file = <<HtmlUrl(1)>>

Failed == {i \in Futures : file_request_futures[i].state = "failed"}

\* C14 as stated: at the end of every run, also one that a list fetch error
\* ends, the error of every failed read_files call has been printed.
C14_EveryFailureReported ==
    pc \in {"done", "error_exit"} => Failed \subseteq printed

C14_State ==
    /\ Reporting => printed = Failed
    /\ printed \subseteq Failed
    /\ printed \subseteq 1..(next_future - 1)
    /\ next_future > 1 => (EnumerationEnded /\ ~ListErrorSeen)
    /\ ListErrorSeen => (printed = {} /\ next_future = 1)

C14_Step ==
    /\ (next_future' # next_future /\ pc' # "read_config") =>
          /\ pc = "collect"
          /\ next_future' = next_future + 1
          /\ Len(file_request_futures') = Len(file_request_futures)
          /\ pull_requests_searched' = pull_requests_searched
          /\ file_request_futures[next_future].state \in {"done", "failed"}
    /\ (printed' # printed /\ pc' # "read_config") =>
          /\ next_future \notin printed
          /\ printed' = printed \cup {next_future}
          /\ next_future' = next_future + 1

\* C14 (amended): in a run whose list enumeration does not fail, the error of
\* every failed read_files call is printed once, by the collection loop, and
\* that loop looks at no future before the last pull request was submitted;
\* in a run that a list fetch error ends, no future's outcome is collected
\* and no call's error is printed.
C14_FailuresReportedUnlessListError == []C14_State /\ [][C14_Step]_vars

C14_Witness ==
    /\ pc = "done"
    /\ Len(file_request_futures) = 2
    /\ Failed = {1, 2}
    /\ printed = {1, 2}
    /\ next_future = 3

InputsReturned == pc \notin {"read_config", "ask_target", "ask_status", "ask_filter",
                              "ask_dates"} /\ error # "config"
Rejected(pair) ==
    \/ ~pair[1].valid
    \/ ~pair[2].valid
    \/ StrptimeDate(pair[1]) > StrptimeDate(pair[2])

\* C15: when get_user_inputs has returned, date_filtering is on only with
\* status 'all', and then START_DATE and END_DATE are both set, from the last
\* pair typed, with START_DATE <= END_DATE; after a pair with a malformed date
\* or with start after end the program is again at the prompt for both dates.
C15_InputsValidated ==
    /\ InputsReturned =>
          /\ pr_status \in {"open", "all"}
          /\ date_filtering => pr_status = "all"
          /\ date_filtering =>
                /\ START_DATE # None /\ END_DATE # None
                /\ START_DATE <= END_DATE
                /\ answered # NoAnswer /\ ~Rejected(answered)
                /\ START_DATE = StrptimeDate(answered[1])
                /\ END_DATE = StrptimeDate(answered[2])
          /\ ~date_filtering =>
                START_DATE = None /\ END_DATE = None /\ answered = NoAnswer
    /\ (answered # NoAnswer /\ Rejected(answered)) => pc = "ask_dates"

C15_Witness ==
    /\ pc = "list_request"
    /\ date_filtering /\ pr_status = "all"
    /\ START_DATE = 0 /\ END_DATE = MaxDay * TicksPerDay
    /\ answered = <<[valid |-> TRUE, day |-> 0], [valid |-> TRUE, day |-> MaxDay]>>

RunStart ==
    \/ pc \in {"read_config", "ask_target", "ask_status", "ask_filter", "ask_dates"}
    \/ pc = "list_request" /\ listReqs = <<>>
Recorded == {i \in Futures : file_request_futures[i].appended = 1}

\* C19: every turn of the search-again loop starts with an empty list of URLs
\* and both counters at 0, and what a turn reports comes from that turn alone:
\* the pull requests it submitted, the URLs its own calls recorded, and no
\* more files than its own calls looked at.
C19_RunsStartEmpty ==
    /\ RunStart =>
          /\ pull_requests_with_file = <<>>
          /\ pull_requests_searched = 0
          /\ files_searched = 0
          /\ ~report.shown
    /\ report.shown =>
          /\ report.prs = Len(file_request_futures)
          /\ Len(report.urls) = Cardinality(Recorded)
          /\ \A k \in 1..Len(report.urls) :
                \E i \in Recorded : file_request_futures[i].url = report.urls[k]
          /\ report.files <= examined

C19_Witness ==
    /\ run = 2
    /\ pc = "done" /\ report.shown
    /\ Len(file_request_futures) = 1
    /\ report.prs = 1
    /\ report.urls = <<HtmlUrl(1)>>
    /\ report.files = 1

\* C17: with finite page sequences and fair scheduling, every submitted
\* read_files call eventually returns or raises, and a run that has begun
\* process_pull_requests eventually reaches the end of display_results or the
\* error exit of run().
C17_RunTerminates ==
    (pc = "list_request") ~>
       /\ pc \in {"done", "error_exit"}
       /\ \A i \in Futures : file_request_futures[i].state \in {"done", "failed"}

C17_Witness ==
    /\ pc = "error_exit" /\ error = "list"
    /\ Len(file_request_futures) = 2
    /\ file_request_futures[1].state = "done"
    /\ file_request_futures[2].state = "failed"
====
